---- MODULE Spec2Model ----
(***************************************************************************)
(* A model of SQuery (src/SQuery.js): the entry point $, the Query         *)
(* constructor, the methods of Query.prototype and the batch dispatcher    *)
(* $.forQuery, over a small document tree.                                  *)
(*                                                                         *)
(* JavaScript values are records [t, w, n, xs]: t is the kind of value, w  *)
(* the words of a string (a string is modelled as the sequence of its      *)
(* space-separated words, so "a b" is <<"a", "b">> and "" is <<>>), n a    *)
(* number, a boolean (1/0) or a node identity, xs the entries of an array, *)
(* a node list or a plain mapping.                                         *)
(***************************************************************************)
EXTENDS Integers, Sequences, FiniteSets, TLC

\* Bounds of the model.
MaxNodes == 6
MaxHandles == 2
\* The longest collection given to $ and to $.forQuery.
MaxLen == 3
\* The longest argument list given to addClass and delClass.
MaxArgs == 2

\* The document object: the node above the root element.
Doc == 0

Nodes == 1..MaxNodes

-----------------------------------------------------------------------------
\* JavaScript values

V(t, w, n, xs) == [t |-> t, w |-> w, n |-> n, xs |-> xs]
Undef == V("undefined", <<>>, 0, <<>>)
Null == V("null", <<>>, 0, <<>>)
Str(w) == V("string", w, 0, <<>>)
Num(n) == V("number", <<>>, n, <<>>)
Bool(b) == V("boolean", <<>>, IF b THEN 1 ELSE 0, <<>>)
Func == V("function", <<>>, 0, <<>>)
NodeV(id) == V("node", <<>>, id, <<>>)
Arr(xs) == V("array", <<>>, 0, xs)
NodeList(xs) == V("nodelist", <<>>, 0, xs)
Pair(k, v) == V("pair", <<k>>, 0, <<v>>)
Obj(pairs) == V("object", <<>>, 0, pairs)
\* A Query object given as a value: its indexed entries.
QueryV(items) == V("query", <<>>, 0, items)

\* typeof v
TypeOf(v) ==
    IF v.t \in {"string", "number", "boolean", "undefined", "function"}
    THEN v.t ELSE "object"

\* The characters of a one-word string, for the strings the model uses.
Chars(word) ==
    CASE word = "hi" -> <<"h", "i">>
      [] word = "a" -> <<"a">>
      [] word = "b" -> <<"b">>
      [] word = "x" -> <<"x">>
      [] OTHER -> <<word>>

\* v.length, for a v that is neither null nor undefined.
LengthOf(v) ==
    CASE v.t \in {"array", "nodelist", "query"} -> Num(Len(v.xs))
      [] v.t = "string" ->
            Num(IF v.w = <<>> THEN 0 ELSE Len(Chars(v.w[1])))
      [] OTHER -> Undef

\* v[i], i counted from 0, for a v that is neither null nor undefined.
IndexOf(v, i) ==
    CASE v.t \in {"array", "nodelist", "query"} /\ i >= 0 /\ i < Len(v.xs) ->
            v.xs[i + 1]
      [] v.t = "string" /\ v.w # <<>> /\ i >= 0 /\ i < Len(Chars(v.w[1])) ->
            Str(<<Chars(v.w[1])[i + 1]>>)
      [] OTHER -> Undef

\* Whether v counts as true in a condition.
Truthy(v) ==
    CASE v.t \in {"undefined", "null"} -> FALSE
      [] v.t = "string" -> v.w # <<>>
      [] v.t \in {"number", "boolean"} -> v.n # 0
      [] OTHER -> TRUE

\* The decimal digits of a small number, as a word.
NumWord(n) ==
    CASE n = 0 -> "0" [] n = 1 -> "1" [] n = 2 -> "2" [] n = 3 -> "3"
      [] n = 4 -> "4" [] n = 5 -> "5" [] n = -1 -> "-1" [] OTHER -> "9"

\* String(v): the words of the string a value is converted to by the DOM.
ToWords(v) ==
    CASE v.t = "string" -> v.w
      [] v.t = "number" -> <<NumWord(v.n)>>
      [] v.t = "boolean" -> <<IF v.n = 1 THEN "true" ELSE "false">>
      [] v.t = "null" -> <<"null">>
      [] v.t = "undefined" -> <<"undefined">>
      [] v.t = "array" /\ v.xs = <<>> -> <<>>
      [] v.t = "array" /\ Len(v.xs) = 1 /\ v.xs[1].t = "string" -> v.xs[1].w
      [] v.t = "array" /\ Len(v.xs) = 1 /\ v.xs[1].t = "number" ->
            <<NumWord(v.xs[1].n)>>
      [] v.t = "function" -> <<"function">>
      [] OTHER -> <<"[object", "Object]">>

-----------------------------------------------------------------------------
\* Results of a call, and Query objects

\* A Query object: its length, its indexed entries and its selector.
Q(length, items, selector) ==
    [length |-> length, items |-> items, selector |-> selector]
NoQ == Q(Undef, <<>>, Undef)

\* What a call ends with: k = "new" (a Query object built by the call, q),
\* "this" (the receiver), "value" (v), "list" (an array, v) or "throw" (e).
R(k, q, v, e) == [k |-> k, q |-> q, v |-> v, e |-> e]
RNew(q) == R("new", q, Undef, "")
RThis == R("this", NoQ, Undef, "")
RVal(v) == R("value", NoQ, v, "")
RThrow(e) == R("throw", NoQ, Undef, e)
\* A call that returns nothing returns undefined.
RNothing == RVal(Undef)

\* new Query(dom, selector)
Query(dom, selector) ==
    IF dom.t = "null"
    THEN RThrow("TypeError")
    ELSE IF TypeOf(dom) = "object" /\ LengthOf(dom) = Undef
    THEN RNew(Q(Num(1), <<dom>>, Undef))
    ELSE LET length == IF Truthy(dom) THEN LengthOf(dom) ELSE Num(0)
             n == IF length.t = "number" THEN length.n ELSE 0
         IN RNew(Q(length,
                   [i \in 1..n |-> IndexOf(dom, i - 1)],
                   IF Truthy(selector) THEN selector ELSE Str(<<>>)))

-----------------------------------------------------------------------------
\* The document: the collaborator the library calls.
\*
\* A document state D is a record: alloc (the element nodes 1..alloc exist),
\* kids (the element children of each node, in order), tag, cls (the words of
\* className), attrs, style (the inline declarations), content (the text held
\* directly by a node; text is kept apart from the element children, so the
\* position of text among them is not modelled) and events (the listeners).

\* parentNode of a node without a parent.
NoNode == -1

AttrNames == {"title", "id"}
PropNames == {"color", "background-color", "--x"}

ParentOf(D, n) ==
    IF \E p \in 0..MaxNodes : \E i \in 1..Len(D.kids[p]) : D.kids[p][i] = n
    THEN CHOOSE p \in 0..MaxNodes : \E i \in 1..Len(D.kids[p]) : D.kids[p][i] = n
    ELSE NoNode

\* A node reference as a JavaScript value (null when there is no node).
Ref(n) == IF n = NoNode THEN Null ELSE NodeV(n)

\* The position of n among the element children of p (0 when it is none).
PosIn(D, p, n) ==
    IF \E i \in 1..Len(D.kids[p]) : D.kids[p][i] = n
    THEN CHOOSE i \in 1..Len(D.kids[p]) : D.kids[p][i] = n
    ELSE 0

RECURSIVE IsAncestorOrSelf(_, _, _)
\* Whether a is n or an ancestor of n.
IsAncestorOrSelf(D, a, n) ==
    IF n = a THEN TRUE
    ELSE IF n = NoNode \/ n = Doc THEN FALSE
    ELSE IsAncestorOrSelf(D, a, ParentOf(D, n))

RECURSIVE Flatten(_)
Flatten(ss) == IF ss = <<>> THEN <<>> ELSE Head(ss) \o Flatten(Tail(ss))

RECURSIVE Descendants(_, _)
\* The element descendants of n in document order.
Descendants(D, n) ==
    Flatten([i \in 1..Len(D.kids[n]) |->
                <<D.kids[n][i]>> \o Descendants(D, D.kids[n][i])])

Without(s, x) == SelectSeq(s, LAMBDA y : y # x)

\* node.remove(), and the detaching step of every insertion.
Detach(D, n) ==
    [D EXCEPT !.kids = [p \in 0..MaxNodes |-> Without(D.kids[p], n)]]

InsertAt(s, i, x) == SubSeq(s, 1, i - 1) \o <<x>> \o SubSeq(s, i, Len(s))

\* p.insertBefore(n, ref): ref is a node, or NoNode for null or undefined (the
\* node is then appended). The result is [D, e]: e is "" or the DOM exception.
InsertBefore(D, p, n, ref) ==
    IF IsAncestorOrSelf(D, n, p) THEN [D |-> D, e |-> "HierarchyRequestError"]
    ELSE IF ref # NoNode /\ PosIn(D, p, ref) = 0
    THEN [D |-> D, e |-> "NotFoundError"]
    ELSE IF p = Doc /\ Without(D.kids[Doc], n) # <<>>
    THEN [D |-> D, e |-> "HierarchyRequestError"]
    ELSE LET D1 == Detach(D, n)
             \* inserting a node before itself puts it before its next sibling
             at == IF ref = n
                   THEN PosIn(D, p, n)
                   ELSE IF ref = NoNode THEN Len(D1.kids[p]) + 1
                   ELSE PosIn(D1, p, ref)
         IN [D |-> [D1 EXCEPT !.kids[p] = InsertAt(D1.kids[p], at, n)],
             e |-> ""]

\* p.appendChild(n)
AppendChild(D, p, n) == InsertBefore(D, p, n, NoNode)

\* document.createElement("p"): the new node is D.alloc + 1.
CreateElement(D) ==
    [D EXCEPT !.alloc = D.alloc + 1, !.tag[D.alloc + 1] = "P"]

\* n.innerHTML = v and n.innerText = v, for a v without markup: the children
\* are dropped and the text is v as a string (null gives the empty string).
SetContent(D, n, v) ==
    [D EXCEPT !.kids[n] = <<>>,
              !.content[n] = IF v.t = "null" THEN <<>> ELSE ToWords(v)]

RECURSIVE InnerText(_, _)
\* n.innerText: the text of n and of its descendants.
InnerText(D, n) ==
    D.content[n] \o
    Flatten([i \in 1..Len(D.kids[n]) |-> InnerText(D, D.kids[n][i])])

TagOpen(tag) ==
    CASE tag = "P" -> "<p>" [] tag = "DIV" -> "<div>"
      [] tag = "SPAN" -> "<span>" [] OTHER -> "<html>"
TagClose(tag) ==
    CASE tag = "P" -> "</p>" [] tag = "DIV" -> "</div>"
      [] tag = "SPAN" -> "</span>" [] OTHER -> "</html>"

RECURSIVE InnerHTML(_, _)
\* n.innerHTML: the text of n and the markup of its children (their
\* attributes are left out of the markup).
InnerHTML(D, n) ==
    D.content[n] \o
    Flatten([i \in 1..Len(D.kids[n]) |->
                <<TagOpen(D.tag[D.kids[n][i]])>>
                \o InnerHTML(D, D.kids[n][i])
                \o <<TagClose(D.tag[D.kids[n][i]])>>])

\* classList.add(v), classList.remove(v), classList.toggle(v): the token is v
\* as a string; an empty token is a SyntaxError, one with white space an
\* InvalidCharacterError.
TokenError(v) ==
    IF ToWords(v) = <<>> THEN "SyntaxError"
    ELSE IF Len(ToWords(v)) > 1 THEN "InvalidCharacterError"
    ELSE ""

HasClass(D, n, tok) == \E i \in 1..Len(D.cls[n]) : D.cls[n][i] = tok

ClassListAdd(D, n, v) ==
    IF TokenError(v) # "" THEN [D |-> D, e |-> TokenError(v)]
    ELSE [D |-> IF HasClass(D, n, ToWords(v)[1]) THEN D
                ELSE [D EXCEPT !.cls[n] = Append(D.cls[n], ToWords(v)[1])],
          e |-> ""]

ClassListRemove(D, n, v) ==
    IF TokenError(v) # "" THEN [D |-> D, e |-> TokenError(v)]
    ELSE [D |-> [D EXCEPT !.cls[n] = Without(D.cls[n], ToWords(v)[1])],
          e |-> ""]

ClassListToggle(D, n, v) ==
    IF TokenError(v) # "" THEN [D |-> D, e |-> TokenError(v)]
    ELSE IF HasClass(D, n, ToWords(v)[1])
    THEN ClassListRemove(D, n, v)
    ELSE ClassListAdd(D, n, v)

\* n.setAttribute(name, v): the value is stored as a string.
SetAttribute(D, n, name, v) ==
    IF name \notin AttrNames THEN [D |-> D, e |-> "InvalidCharacterError"]
    ELSE [D |-> [D EXCEPT !.attrs[n][name] = Str(ToWords(v))], e |-> ""]

\* n.getAttribute(name): the stored string, or null.
GetAttribute(D, n, name) ==
    IF name \in AttrNames THEN D.attrs[n][name] ELSE Null

\* Whether the style system takes a value for a property: a custom property
\* takes any text, a colour property only a colour.
ValidStyle(prop, w) ==
    IF prop = "--x" THEN w # <<>>
    ELSE w \in {<<"red">>, <<"blue">>}

\* n.style.setProperty(prop, v): the empty string (and null) removes the
\* declaration; an unknown property or an invalid value changes nothing.
SetProperty(D, n, prop, v) ==
    LET w == IF v.t = "null" THEN <<>> ELSE ToWords(v) IN
    IF prop \notin PropNames THEN D
    ELSE IF w = <<>> THEN [D EXCEPT !.style[n][prop] = <<>>]
    ELSE IF ValidStyle(prop, w) THEN [D EXCEPT !.style[n][prop] = w]
    ELSE D

\* The computed form of a declared value: a colour name becomes rgb(...).
ComputedForm(prop, w) ==
    IF prop = "--x" THEN w
    ELSE IF w = <<"red">> THEN <<"rgb(255,", "0,", "0)">>
    ELSE IF w = <<"blue">> THEN <<"rgb(0,", "0,", "255)">>
    ELSE w

RECURSIVE Computed(_, _, _)
\* The computed value of prop on an element of the document: the element's
\* own declaration, else (for the inherited properties) its parent's value,
\* else the initial value.
Computed(D, n, prop) ==
    IF D.style[n][prop] # <<>> THEN ComputedForm(prop, D.style[n][prop])
    ELSE IF prop = "background-color" THEN <<"rgba(0,", "0,", "0,", "0)">>
    ELSE IF ParentOf(D, n) \in Nodes THEN Computed(D, ParentOf(D, n), prop)
    ELSE IF prop = "color" THEN <<"rgb(0,", "0,", "0)">>
    ELSE <<>>

\* getComputedStyle(n).getPropertyValue(prop): empty for an unknown property
\* and for an element outside the document.
GetPropertyValue(D, n, prop) ==
    IF prop \notin PropNames \/ ~IsAncestorOrSelf(D, Doc, n) THEN Str(<<>>)
    ELSE Str(Computed(D, n, prop))

\* n.addEventListener(type, func, capture)
AddEventListener(D, n, type, capture) ==
    [D EXCEPT !.events[n] = D.events[n] \cup {<<ToWords(type), Truthy(capture)>>}]

-----------------------------------------------------------------------------
\* Query.prototype: every method is an operator of the document state D, the
\* receiver and the argument list; its result is [D, r], the document state
\* the call leaves and what the call ends with.

Res(D, r) == [D |-> D, r |-> r]

\* arguments[i], counted from 0
Arg(args, i) == IF i < Len(args) THEN args[i + 1] ELSE Undef

\* this[0]
This0(this) == IF Len(this.items) >= 1 THEN this.items[1] ELSE Undef

\* Reading a property of null or undefined is a TypeError.
Nullish(v) == v.t \in {"undefined", "null"}
IsElem(v) == v.t = "node" /\ v.n \in Nodes
IsDoc(v) == v.t = "node" /\ v.n = Doc

\* The one word of a name given as a value ("" when it is not one word).
Word(v) == IF Len(ToWords(v)) = 1 THEN ToWords(v)[1] ELSE ""

\* obj[key] of a plain mapping; undefined for a missing key.
Get(v, key) ==
    IF v.t = "object" /\ \E i \in 1..Len(v.xs) : v.xs[i].w[1] = key
    THEN v.xs[CHOOSE i \in 1..Len(v.xs) : v.xs[i].w[1] = key].xs[1]
    ELSE Undef

\* The pairs a for-in loop visits: the keys of a mapping, the indices of an
\* array.
Entries(v) ==
    CASE v.t = "object" -> v.xs
      [] v.t = "array" -> [i \in 1..Len(v.xs) |-> Pair(NumWord(i - 1), v.xs[i])]
      [] OTHER -> <<>>

\* value instanceof Object
InstanceOfObject(v) == v.t \in {"object", "array", "function", "node", "nodelist"}

\* A function of the script, given by the values its successive calls return
FuncReturning(rs) == V("function", <<>>, 0, rs)

RECURSIVE every(_, _, _)
\* [].every.call(xs, fn) from `index` on: fn is called on the entries in
\* index order until one of its results is falsy. results[i + 1] is what fn
\* returns for index i; the value is the list of calls made, each [dom, index].
every(xs, results, index) ==
    IF index >= Len(xs) THEN <<>>
    ELSE <<Arr(<<xs[index + 1], Num(index)>>)>> \o
         (IF Truthy(results[index + 1]) THEN every(xs, results, index + 1)
          ELSE <<>>)

\* each(callBack): the function handed to every calls
\* callBack.call(dom, dom, index) and returns nothing, whatever callBack
\* returned. The result is how the call ends and the calls of callBack made.
each(this, callBack) ==
    LET inner == [i \in 1..Len(this.items) |-> Undef] IN
    IF this.items # <<>> /\ TypeOf(callBack) # "function"
    THEN [r |-> RThrow("TypeError"), calls |-> <<>>]
    ELSE [r |-> RNothing, calls |-> every(this.items, inner, 0)]

\* isEvent(on, func)
isEvent(on, func) ==
    IF Nullish(on) \/ TypeOf(on) # "string" THEN "InvalidEventSpecError"
    ELSE IF Nullish(func) \/ TypeOf(func) # "function" THEN "InvalidEventSpecError"
    ELSE ""

\* on(on, func, bool)
on(D, this, args) ==
    LET dom == This0(this) IN
    IF isEvent(Arg(args, 0), Arg(args, 1)) # ""
    THEN Res(D, RThrow(isEvent(Arg(args, 0), Arg(args, 1))))
    ELSE IF dom.t # "node" THEN Res(D, RThrow("TypeError"))
    ELSE Res(AddEventListener(D, dom.n, Arg(args, 0), Arg(args, 2)), RThis)

RECURSIVE bindEach(_, _, _)
\* eventObj.forEach((k) => this.on(k.on, k.func, k.bool))
bindEach(D, this, ks) ==
    IF ks = <<>> THEN Res(D, RThis)
    ELSE IF Nullish(Head(ks)) THEN Res(D, RThrow("TypeError"))
    ELSE LET one == on(D, this, <<Get(Head(ks), "on"), Get(Head(ks), "func"),
                                  Get(Head(ks), "bool")>>)
         IN IF one.r.k = "throw" THEN one ELSE bindEach(one.D, this, Tail(ks))

\* bind(eventObj)
bind(D, this, args) ==
    LET eventObj == Arg(args, 0) IN
    IF TypeOf(eventObj) = "string" THEN Res(D, RThrow("UnsupportedArgumentError"))
    ELSE IF eventObj.t = "array" THEN bindEach(D, this, eventObj.xs)
    ELSE IF InstanceOfObject(eventObj)
    THEN on(D, this, <<Get(eventObj, "on"), Get(eventObj, "func"),
                       Get(eventObj, "bool")>>)
    ELSE Res(D, RThis)

\* key.replace(/[A-Z]/g, (match) => "-" + match.toLowerCase())
Kebab(name) ==
    IF name = "backgroundColor" THEN "background-color" ELSE name

RECURSIVE cssEach(_, _, _)
\* for (let name in pattern) dom.style.setProperty(key, pattern[name])
cssEach(D, dom, pairs) ==
    IF pairs = <<>> THEN Res(D, RThis)
    ELSE IF ~IsElem(dom) THEN Res(D, RThrow("TypeError"))
    ELSE cssEach(SetProperty(D, dom.n, Kebab(Head(pairs).w[1]), Head(pairs).xs[1]),
                 dom, Tail(pairs))

\* isArg = name == "string" || "number" ? true : false
\* The condition is (name == "string" || "number"), and "number" counts as
\* true: isArg is true whatever the name and the value are.
isArg(name, value) == TRUE

\* css(pattern)
css(D, this, args) ==
    LET dom == This0(this)
        pattern == Arg(args, 0)
    IN
    IF TypeOf(pattern) = "string" /\ Len(args) = 1
    THEN IF ~IsElem(dom) THEN Res(D, RThrow("TypeError"))
         ELSE Res(D, RVal(GetPropertyValue(D, dom.n, Word(pattern))))
    ELSE IF InstanceOfObject(pattern) /\ Len(args) = 1
    THEN cssEach(D, dom, Entries(pattern))
    ELSE IF Len(args) = 2 /\ isArg(Arg(args, 0), Arg(args, 1))
    THEN IF ~IsElem(dom) THEN Res(D, RThrow("TypeError"))
         ELSE Res(SetProperty(D, dom.n, Word(Arg(args, 0)), Arg(args, 1)), RThis)
    ELSE Res(D, RNothing)

RECURSIVE attrEach(_, _, _)
\* for (let name in attribute) dom.setAttribute(name, attribute[name])
attrEach(D, dom, pairs) ==
    IF pairs = <<>> THEN Res(D, RThis)
    ELSE IF ~IsElem(dom) THEN Res(D, RThrow("TypeError"))
    ELSE LET set == SetAttribute(D, dom.n, Head(pairs).w[1], Head(pairs).xs[1])
         IN IF set.e # "" THEN Res(D, RThrow(set.e))
            ELSE attrEach(set.D, dom, Tail(pairs))

\* attr(attribute)
attr(D, this, args) ==
    LET dom == This0(this)
        attribute == Arg(args, 0)
    IN
    IF TypeOf(attribute) = "string" /\ Len(args) = 1
    THEN IF ~IsElem(dom) THEN Res(D, RThrow("TypeError"))
         ELSE Res(D, RVal(GetAttribute(D, dom.n, Word(attribute))))
    ELSE IF InstanceOfObject(attribute) /\ Len(args) = 1
    THEN attrEach(D, dom, Entries(attribute))
    ELSE IF Len(args) = 2 /\ isArg(Arg(args, 0), Arg(args, 1))
    THEN IF ~IsElem(dom) THEN Res(D, RThrow("TypeError"))
         ELSE LET set == SetAttribute(D, dom.n, Word(Arg(args, 0)), Arg(args, 1))
              IN IF set.e # "" THEN Res(D, RThrow(set.e)) ELSE Res(set.D, RThis)
    ELSE Res(D, RNothing)

\* dom[prop] = v and dom[prop] for the properties innerText, innerHTML and
\* className. On an element they are the DOM's; on the document object they
\* are plain properties of that object (D.docProps); on a string they read
\* as undefined and a write is dropped.
SetProp(D, dom, prop, v) ==
    CASE Nullish(dom) -> [D |-> D, e |-> "TypeError"]
      [] IsElem(dom) /\ prop = "className" ->
            [D |-> [D EXCEPT !.cls[dom.n] =
                        IF v.t = "null" THEN <<"null">> ELSE ToWords(v)],
             e |-> ""]
      [] IsElem(dom) /\ prop # "className" ->
            [D |-> SetContent(D, dom.n, v), e |-> ""]
      [] IsDoc(dom) -> [D |-> [D EXCEPT !.docProps[prop] = v], e |-> ""]
      [] OTHER -> [D |-> D, e |-> ""]

GetProp(D, dom, prop) ==
    CASE Nullish(dom) -> RThrow("TypeError")
      [] IsElem(dom) /\ prop = "className" -> RVal(Str(D.cls[dom.n]))
      [] IsElem(dom) /\ prop = "innerText" -> RVal(Str(InnerText(D, dom.n)))
      [] IsElem(dom) /\ prop = "innerHTML" -> RVal(Str(InnerHTML(D, dom.n)))
      [] IsDoc(dom) -> RVal(D.docProps[prop])
      [] OTHER -> RVal(Undef)

\* The write forms of text, html and class: dom[prop] = v; return this
WriteProp(D, dom, prop, v) ==
    LET set == SetProp(D, dom, prop, v)
    IN IF set.e # "" THEN Res(D, RThrow(set.e)) ELSE Res(set.D, RThis)

\* text(text)
text(D, this, args) ==
    IF Len(args) >= 1
    THEN WriteProp(D, This0(this), "innerText", Arg(args, 0))
    ELSE Res(D, GetProp(D, This0(this), "innerText"))

\* html(value)
html(D, this, args) ==
    IF Len(args) >= 1
    THEN WriteProp(D, This0(this), "innerHTML", Arg(args, 0))
    ELSE Res(D, GetProp(D, This0(this), "innerHTML"))

\* class(taxon)
class(D, this, args) ==
    LET taxon == Arg(args, 0) IN
    IF Nullish(taxon) THEN Res(D, GetProp(D, This0(this), "className"))
    ELSE IF TypeOf(taxon) = "string"
    THEN WriteProp(D, This0(this), "className", taxon)
    ELSE Res(D, RNothing)

RECURSIVE LeavesOfStrings(_)
\* A variant of the leaves below that passes over the array arguments too
LeavesOfStrings(args) ==
    IF args = <<>> THEN <<>>
    ELSE (IF Head(args).t = "string" THEN <<Head(args)>> ELSE <<>>)
         \o LeavesOfStrings(Tail(args))

RECURSIVE Leaves(_)
\* The class names addClass and delClass apply, in order: every string
\* argument and every entry of an array argument; other arguments are
\* passed over.
Leaves(args) ==
    IF args = <<>> THEN <<>>
    ELSE (CASE Head(args).t = "string" -> <<Head(args)>>
            [] Head(args).t = "array" -> Head(args).xs
            [] OTHER -> <<>>) \o Leaves(Tail(args))

RECURSIVE classEach(_, _, _, _)
\* dom.classList.add(v) or dom.classList.remove(v) for each v in turn
classEach(D, dom, vs, adding) ==
    IF vs = <<>> THEN Res(D, RThis)
    ELSE IF ~IsElem(dom) THEN Res(D, RThrow("TypeError"))
    ELSE LET one == IF adding THEN ClassListAdd(D, dom.n, Head(vs))
                    ELSE ClassListRemove(D, dom.n, Head(vs))
         IN IF one.e # "" THEN Res(one.D, RThrow(one.e))
            ELSE classEach(one.D, dom, Tail(vs), adding)

\* addClass(taxon)
addClass(D, this, args) ==
    IF Len(args) <= 0 THEN Res(D, RThrow("UnsupportedArgumentError"))
    ELSE classEach(D, This0(this), Leaves(args), TRUE)

\* delClass(taxon)
delClass(D, this, args) ==
    IF Len(args) <= 0 THEN WriteProp(D, This0(this), "className", Str(<<>>))
    ELSE classEach(D, This0(this), Leaves(args), FALSE)

\* toggle(taxon)
toggle(D, this, args) ==
    LET dom == This0(this) IN
    IF Len(args) <= 0 THEN Res(D, RThrow("UnsupportedArgumentError"))
    ELSE IF TypeOf(Arg(args, 0)) # "string"
    THEN Res(D, RThrow("UnsupportedArgumentError"))
    ELSE IF ~IsElem(dom) THEN Res(D, RThrow("TypeError"))
    ELSE LET one == ClassListToggle(D, dom.n, Arg(args, 0))
         IN IF one.e # "" THEN Res(D, RThrow(one.e)) ELSE Res(one.D, RThis)

-----------------------------------------------------------------------------
\* Selectors. A selector is one word: ".c" (a class), "#i" (an identifier) or
\* a tag name. The empty string is no selector (a SyntaxError).

\* selector.slice(0, 1)
FirstChar(word) ==
    CASE word \in {".a", ".b", ".x"} -> "."
      [] word \in {"#main"} -> "#"
      [] OTHER -> "t"

\* selector.slice(1, selector.length)
Rest(word) ==
    CASE word = ".a" -> "a" [] word = ".b" -> "b" [] word = ".x" -> "x"
      [] word = "#main" -> "main" [] OTHER -> ""

\* selector.toUpperCase()
UpperCase(word) ==
    CASE word = "div" -> "DIV" [] word = "p" -> "P" [] word = "span" -> "SPAN"
      [] word = "html" -> "HTML" [] OTHER -> "NONE"

\* element.id
IdOf(D, n) == IF D.attrs[n]["id"].t = "string" THEN D.attrs[n]["id"].w ELSE <<>>

\* Whether element n matches the selector (as the document's selector
\* engine decides it).
Matches(D, n, sel) ==
    IF Len(sel.w) # 1 THEN FALSE
    ELSE CASE FirstChar(sel.w[1]) = "." -> HasClass(D, n, Rest(sel.w[1]))
           [] FirstChar(sel.w[1]) = "#" -> IdOf(D, n) = <<Rest(sel.w[1])>>
           [] OTHER -> D.tag[n] = UpperCase(sel.w[1])

\* root.querySelectorAll(sel): [v, e]
QuerySelectorAll(D, root, sel) ==
    IF sel.w = <<>> THEN [v |-> Undef, e |-> "SyntaxError"]
    ELSE [v |-> NodeList([i \in 1..Len(SelectSeq(Descendants(D, root),
                                          LAMBDA n : Matches(D, n, sel))) |->
                            NodeV(SelectSeq(Descendants(D, root),
                                            LAMBDA n : Matches(D, n, sel))[i])]),
          e |-> ""]

\* root.querySelector(sel): the first match or null
QuerySelector(D, root, sel) ==
    LET all == QuerySelectorAll(D, root, sel) IN
    IF all.e # "" THEN all
    ELSE [v |-> IF all.v.xs = <<>> THEN Null ELSE all.v.xs[1], e |-> ""]

\* Properties of a node that is not null or undefined. A value that is no
\* node (a string) has none of them: they read as undefined.
ParentNode(D, v) ==
    CASE IsElem(v) -> Ref(ParentOf(D, v.n)) [] IsDoc(v) -> Null [] OTHER -> Undef

ChildrenOf(D, v) ==
    IF v.t = "node"
    THEN NodeList([i \in 1..Len(D.kids[v.n]) |-> NodeV(D.kids[v.n][i])])
    ELSE Undef

\* dom.firstChild, as the reference node of an insertion
FirstKid(D, n) == IF D.kids[n] = <<>> THEN NoNode ELSE D.kids[n][1]

PreviousElementSibling(D, v) ==
    IF ~IsElem(v) THEN Undef
    ELSE LET p == ParentOf(D, v.n) IN
         IF p = NoNode \/ PosIn(D, p, v.n) <= 1 THEN Null
         ELSE NodeV(D.kids[p][PosIn(D, p, v.n) - 1])

NextElementSibling(D, v) ==
    IF ~IsElem(v) THEN Undef
    ELSE LET p == ParentOf(D, v.n) IN
         IF p = NoNode \/ PosIn(D, p, v.n) = Len(D.kids[p]) THEN Null
         ELSE NodeV(D.kids[p][PosIn(D, p, v.n) + 1])

\* A reference node given as a value: null and undefined append.
RefNode(v) == IF v.t = "node" THEN v.n ELSE NoNode

\* new Query(v, selector) as the end of a method
Made(D, v, selector) == Res(D, Query(v, selector))

-----------------------------------------------------------------------------
\* Traversal

RECURSIVE parentWalkOn(_, _, _, _)
\* A variant of the walk below without the test for the document object
parentWalkOn(D, domParent, i, n) ==
    IF i >= n THEN Query(domParent, Null)
    ELSE IF Nullish(domParent) THEN RThrow("TypeError")
    ELSE parentWalkOn(D, ParentNode(D, domParent), i + 1, n)

RECURSIVE parentWalk(_, _, _, _)
\* for (let i = 0; i < selector; i++) { if (domParent == document) return
\* domParent; domParent = domParent.parentNode }
parentWalk(D, domParent, i, n) ==
    IF i >= n THEN Query(domParent, Null)
    ELSE IF IsDoc(domParent) THEN RVal(domParent)
    ELSE IF Nullish(domParent) THEN RThrow("TypeError")
    ELSE parentWalk(D, ParentNode(D, domParent), i + 1, n)

\* parent(selector)
parent(D, this, args) ==
    LET dom == This0(this)
        selector == Arg(args, 0)
    IN
    IF ~Nullish(selector) /\ TypeOf(selector) = "number" /\ selector.n > 1
    THEN Res(D, parentWalk(D, dom, 0, selector.n))
    ELSE IF ~Nullish(selector) /\ TypeOf(selector) = "string"
    THEN IF Nullish(dom) \/ Nullish(ParentNode(D, dom))
            \/ ParentNode(D, ParentNode(D, dom)).t # "node"
         THEN Res(D, RThrow("TypeError"))
         ELSE LET found == QuerySelector(D, ParentNode(D, ParentNode(D, dom)).n,
                                         selector)
              IN IF found.e # "" THEN Res(D, RThrow(found.e))
                 ELSE Made(D, found.v, selector)
    ELSE IF Nullish(dom) THEN Res(D, RThrow("TypeError"))
    ELSE Made(D, ParentNode(D, dom), Null)

RECURSIVE parentAllWalk(_, _, _)
\* while (dom.parentNode != document) { dom = dom.parentNode; push(dom) }
parentAllWalk(D, dom, parentArr) ==
    IF Nullish(dom) THEN RThrow("TypeError")
    ELSE IF IsDoc(ParentNode(D, dom)) THEN Query(Arr(parentArr), Null)
    ELSE parentAllWalk(D, ParentNode(D, dom), Append(parentArr, ParentNode(D, dom)))

\* parentAll()
parentAll(D, this, args) == Res(D, parentAllWalk(D, This0(this), <<>>))

\* children(selector)
children(D, this, args) ==
    LET dom == This0(this)
        selector == Arg(args, 0)
    IN
    IF ~Nullish(selector) /\ TypeOf(selector) = "string"
    THEN IF dom.t # "node" THEN Res(D, RThrow("TypeError"))
         ELSE LET domChild == QuerySelectorAll(D, dom.n, selector)
              IN IF domChild.e # "" THEN Res(D, RThrow(domChild.e))
                 ELSE Made(D, domChild.v, selector)
    ELSE IF ~Nullish(selector) /\ TypeOf(selector) = "number"
    THEN IF dom.t # "node" THEN Res(D, RThrow("TypeError"))
         ELSE IF IndexOf(ChildrenOf(D, dom), selector.n) = Undef
         THEN Res(D, RThrow("ChildNotFoundError"))
         ELSE Made(D, Arr(<<IndexOf(ChildrenOf(D, dom), selector.n)>>), selector)
    ELSE IF Nullish(dom) THEN Res(D, RThrow("TypeError"))
    ELSE Made(D, ChildrenOf(D, dom), Null)

\* firstChild()
firstChild(D, this, args) ==
    LET dom == This0(this) IN
    IF dom.t # "node" THEN Res(D, RThrow("TypeError"))
    ELSE Made(D, IndexOf(ChildrenOf(D, dom), 0), Null)

\* lastChild()
lastChild(D, this, args) ==
    LET dom == This0(this) IN
    IF dom.t # "node" THEN Res(D, RThrow("TypeError"))
    ELSE Made(D, IndexOf(ChildrenOf(D, dom), Len(D.kids[dom.n]) - 1), Null)

\* child(i)
child(D, this, args) ==
    LET dom == This0(this)
        i == Arg(args, 0)
    IN
    IF dom.t # "node" THEN Res(D, RThrow("TypeError"))
    ELSE IF TypeOf(i) = "number" /\ i.n >= 0
    THEN Made(D, IndexOf(ChildrenOf(D, dom), i.n), Null)
    ELSE Res(D, RThrow("IndexError"))

\* this[i], i counted from 0
Item(this, i) ==
    IF i >= 0 /\ i < Len(this.items) THEN this.items[i + 1] ELSE Undef

\* first()
first(D, this, args) == Made(D, This0(this), Null)

\* last()
last(D, this, args) ==
    Made(D, IF this.length.t = "number" THEN Item(this, this.length.n - 1)
            ELSE Undef, Null)

\* eq(i)
eq(D, this, args) ==
    LET i == Arg(args, 0) IN
    IF TypeOf(i) = "number" /\ i.n >= 0 THEN Made(D, Item(this, i.n), Null)
    ELSE Res(D, RThrow("IndexError"))

\* i == false, for the argument values of the model
LooseFalse(v) ==
    \/ v.t \in {"boolean", "number"} /\ v.n = 0
    \/ v.t = "string" /\ v.w \in {<<>>, <<"0">>}
    \/ v.t = "array" /\ v.xs = <<>>

\* i == true, for the argument values of the model
LooseTrue(v) ==
    \/ v.t \in {"boolean", "number"} /\ v.n = 1
    \/ v.t = "string" /\ v.w = <<"1">>

\* The number a loop bound or comparison takes a value for (undefined has
\* none: every comparison with it is false).
HasNum(v) == v.t \in {"number", "boolean", "null"}

RECURSIVE siblingWalk(_, _, _, _)
\* for (let j = 0; j < i; j++) dom = dom.previousElementSibling (or next)
siblingWalk(D, dom, steps, back) ==
    IF steps <= 0 THEN Query(dom, Null)
    ELSE IF Nullish(dom) THEN RThrow("TypeError")
    ELSE siblingWalk(D, IF back THEN PreviousElementSibling(D, dom)
                        ELSE NextElementSibling(D, dom), steps - 1, back)

\* prevNode(i)
prevNode(D, this, args) ==
    LET dom == This0(this)
        i == Arg(args, 0)
    IN
    IF Nullish(dom) THEN Res(D, RThrow("TypeError"))
    ELSE IF Nullish(i) \/ LooseFalse(i) \/ (HasNum(i) /\ i.n <= 0)
    THEN Made(D, PreviousElementSibling(D, dom), Null)
    ELSE Res(D, siblingWalk(D, PreviousElementSibling(D, dom),
                            IF HasNum(i) THEN i.n ELSE 0, TRUE))

\* nextNode(i)
nextNode(D, this, args) ==
    LET dom == This0(this)
        i == Arg(args, 0)
    IN
    IF Nullish(dom) THEN Res(D, RThrow("TypeError"))
    ELSE IF Nullish(i) \/ LooseFalse(i) \/ (HasNum(i) /\ i.n = 0)
    THEN Made(D, NextElementSibling(D, dom), Null)
    ELSE Res(D, siblingWalk(D, NextElementSibling(D, dom),
                            IF HasNum(i) THEN i.n ELSE 0, FALSE))

RECURSIVE siblingsAll(_, _, _)
\* while (dom != document && dom != null) { push(dom); dom = its sibling }
siblingsAll(D, dom, back) ==
    IF IsDoc(dom) \/ Nullish(dom) THEN <<>>
    ELSE <<dom>> \o siblingsAll(D, IF back THEN PreviousElementSibling(D, dom)
                                   ELSE NextElementSibling(D, dom), back)

\* The filter of prevNodeAll and nextNodeAll: "." compares the first class
\* name of the sibling, "#" its id, anything else its tag name.
SiblingMatches(D, n, selector) ==
    LET index == FirstChar(Word(selector)) IN
    CASE index = "." ->
            (IF D.cls[n] = <<>> THEN "" ELSE D.cls[n][1]) = Rest(Word(selector))
      [] index = "#" ->
            (IF IdOf(D, n) = <<>> THEN "" ELSE IdOf(D, n)[1]) = Rest(Word(selector))
      [] OTHER -> D.tag[n] = UpperCase(Word(selector))

\* The common body of prevNodeAll(selector) and nextNodeAll(selector)
nodeAll(D, this, args, back) ==
    LET dom == This0(this)
        selector == Arg(args, 0)
        domArr == siblingsAll(D, IF back THEN PreviousElementSibling(D, dom)
                                 ELSE NextElementSibling(D, dom), back)
    IN
    IF Nullish(dom) THEN Res(D, RThrow("TypeError"))
    ELSE IF TypeOf(selector) = "string" /\ ~LooseFalse(selector)
    THEN Made(D, Arr(SelectSeq(domArr, LAMBDA v : SiblingMatches(D, v.n, selector))),
              Null)
    ELSE Res(D, RVal(Arr(domArr)))

\* prevNodeAll(selector)
prevNodeAll(D, this, args) == nodeAll(D, this, args, TRUE)

\* nextNodeAll(selector)
nextNodeAll(D, this, args) == nodeAll(D, this, args, FALSE)

\* dom()
dom_(D, this, args) ==
    IF this.length.t = "number" /\ this.length.n >= 2
    THEN Res(D, RVal(Arr(this.items)))
    ELSE Res(D, RVal(This0(this)))

-----------------------------------------------------------------------------
\* Insertion and removal

IsPrimitive(node) == TypeOf(node) \in {"string", "number"}

\* typeof node == "object" && node.nodeType, for a node that is not null
IsNodeArg(node) == node.t = "node"

\* let p = document.createElement("p"); p.innerHTML = node
NewP(D, node) == SetContent(CreateElement(D), D.alloc + 1, node)

\* parent.insertBefore(n, ref) as the end of an insertion method: a TypeError
\* when parent is no node, the DOM's exception when it refuses, else a Query
\* object of `made`.
Inserted(D, parentV, n, ref, made) ==
    IF parentV.t # "node" THEN Res(D, RThrow("TypeError"))
    ELSE LET ins == InsertBefore(D, parentV.n, n, ref)
         IN IF ins.e # "" THEN Res(D, RThrow(ins.e))
            ELSE Made(ins.D, made, Null)

\* addFirstChild(node = null)
addFirstChild(D, this, args) ==
    LET dom == This0(this)
        node == Arg(args, 0)
    IN
    IF Nullish(node) THEN Res(D, RThrow("UnsupportedArgumentError"))
    ELSE IF IsPrimitive(node)
    THEN Inserted(NewP(D, node), dom, D.alloc + 1,
                  IF dom.t = "node" THEN FirstKid(D, dom.n) ELSE NoNode,
                  NodeV(D.alloc + 1))
    ELSE IF IsNodeArg(node)
    THEN Inserted(D, dom, node.n,
                  IF dom.t = "node" THEN FirstKid(D, dom.n) ELSE NoNode, node)
    ELSE Res(D, RNothing)

\* addLastChild(node = null)
addLastChild(D, this, args) ==
    LET dom == This0(this)
        node == Arg(args, 0)
    IN
    IF Nullish(node) THEN Res(D, RThrow("UnsupportedArgumentError"))
    ELSE IF IsPrimitive(node)
    THEN Inserted(NewP(D, node), dom, D.alloc + 1, NoNode, NodeV(D.alloc + 1))
    ELSE IF IsNodeArg(node) THEN Inserted(D, dom, node.n, NoNode, node)
    ELSE Res(D, RNothing)

\* insertChild(i, node, isBefore = false)
insertChild(D, this, args) ==
    LET dom == This0(this)
        i == Arg(args, 0)
        node == Arg(args, 1)
        isBefore == IF Arg(args, 2).t = "undefined" THEN Bool(FALSE)
                    ELSE Arg(args, 2)
        at == IF dom.t = "node" /\ i.t = "number"
              THEN IndexOf(ChildrenOf(D, dom), i.n) ELSE Undef
    IN
    IF /\ TypeOf(node) \notin {"string", "number", "object"}
       /\ TypeOf(isBefore) # "boolean"
       /\ HasNum(i) /\ i.n < 0
    THEN Res(D, RThrow("UnsupportedArgumentError"))
    ELSE IF HasNum(i) /\ i.n <= 0 /\ LooseTrue(isBefore)
    THEN addFirstChild(D, this, <<node>>)
    ELSE IF Nullish(dom) THEN Res(D, RThrow("TypeError"))
    ELSE IF /\ dom.t = "node" /\ HasNum(i) /\ i.n >= Len(D.kids[dom.n])
            /\ LooseFalse(isBefore)
    THEN addLastChild(D, this, <<node>>)
    ELSE IF dom.t # "node" THEN Res(D, RThrow("TypeError"))
    ELSE IF Truthy(isBefore)
    THEN IF IsPrimitive(node)
         THEN Inserted(NewP(D, node), dom, D.alloc + 1, RefNode(at),
                       NodeV(D.alloc + 1))
         ELSE IF node.t = "null" THEN Res(D, RThrow("TypeError"))
         ELSE IF IsNodeArg(node) THEN Inserted(D, dom, node.n, RefNode(at), node)
         ELSE Res(D, RNothing)
    ELSE IF Nullish(at) THEN Res(D, RThrow("TypeError"))
    ELSE LET nextDom == NextElementSibling(D, at) IN
         IF IsPrimitive(node)
         THEN Inserted(NewP(D, node), dom, D.alloc + 1, RefNode(nextDom), node)
         ELSE IF node.t = "null" THEN Res(D, RThrow("TypeError"))
         ELSE IF IsNodeArg(node)
         THEN Inserted(D, dom, node.n, RefNode(nextDom), node)
         ELSE Res(D, RNothing)

RECURSIVE removeEach(_, _)
\* for (...) indexDom[i].remove()
removeEach(D, ns) ==
    IF ns = <<>> THEN D ELSE removeEach(Detach(D, Head(ns).n), Tail(ns))

RECURSIVE removeFirstFrom1(_, _, _)
\* A variant of the loop below that starts at i = 1
removeFirstFrom1(D, n, childLength) ==
    IF childLength <= 1 THEN D
    ELSE removeFirstFrom1(Detach(D, D.kids[n][1]), n, childLength - 1)

RECURSIVE removeFirst(_, _, _)
\* for (let i = 0; i < childLength; i++) dom.children[0].remove()
removeFirst(D, n, childLength) ==
    IF childLength <= 0 THEN D
    ELSE removeFirst(Detach(D, D.kids[n][1]), n, childLength - 1)

\* removeChild(index)
removeChild(D, this, args) ==
    LET dom == This0(this)
        index == Arg(args, 0)
    IN
    IF TypeOf(index) = "number"
    THEN \* dom.removeChild[index]: a property read, nothing is removed
         IF dom.t # "node" THEN Res(D, RThrow("TypeError"))
         ELSE Made(D, dom, Null)
    ELSE IF TypeOf(index) = "string"
    THEN IF dom.t # "node" THEN Res(D, RThrow("TypeError"))
         ELSE LET indexDom == QuerySelectorAll(D, dom.n, index)
              IN IF indexDom.e # "" THEN Res(D, RThrow(indexDom.e))
                 ELSE Made(removeEach(D, indexDom.v.xs), dom, Null)
    ELSE IF Nullish(index)
    THEN IF dom.t # "node" THEN Res(D, RThrow("TypeError"))
         ELSE Made(removeFirst(D, dom.n, Len(D.kids[dom.n])), dom, Null)
    ELSE Res(D, RThrow("UnsupportedArgumentError"))

\* The common body of insertElementBefore(node) and insertElementAfter(node)
insertElement(D, this, args, before) ==
    LET dom == This0(this)
        node == Arg(args, 0)
        ref == IF before THEN dom ELSE NextElementSibling(D, dom)
    IN
    IF Nullish(dom) THEN Res(D, RThrow("TypeError"))
    ELSE IF node.t = "null" THEN Res(D, RThrow("TypeError"))
    ELSE IF IsNodeArg(node)
    THEN IF Nullish(ParentNode(D, dom)) THEN Res(D, RThrow("TypeError"))
         ELSE Inserted(D, ParentNode(D, dom), node.n, RefNode(ref), node)
    ELSE IF IsPrimitive(node)
    THEN IF Nullish(ParentNode(D, dom))
         THEN Res(NewP(D, node), RThrow("TypeError"))
         ELSE Inserted(NewP(D, node), ParentNode(D, dom), D.alloc + 1,
                       RefNode(ref), NodeV(D.alloc + 1))
    ELSE Res(D, RThrow("UnsupportedArgumentError"))

\* insertElementBefore(node)
insertElementBefore(D, this, args) == insertElement(D, this, args, TRUE)

\* insertElementAfter(node)
insertElementAfter(D, this, args) == insertElement(D, this, args, FALSE)

-----------------------------------------------------------------------------
\* The entry point and the batch dispatcher

\* $(nodeSelector)
Dollar(D, nodeSelector) ==
    IF nodeSelector.t = "null" THEN RThrow("TypeError")
    ELSE IF TypeOf(nodeSelector) = "object" /\ LengthOf(nodeSelector) = Undef
    THEN Query(nodeSelector, Null)
    ELSE IF TypeOf(nodeSelector) = "object" /\ LengthOf(nodeSelector).n >= 1
    THEN Query(nodeSelector, Null)
    ELSE IF TypeOf(nodeSelector) # "string" THEN RThrow("InvalidInputError")
    ELSE LET found == QuerySelectorAll(D, Doc, nodeSelector)
         IN IF found.e # "" THEN RThrow(found.e)
            ELSE Query(found.v, nodeSelector)

\* The own properties of Query.prototype
PrototypeNames ==
    {"each", "isEvent", "on", "bind", "css", "attr", "text", "html", "class",
     "addClass", "delClass", "toggle", "parent", "parentAll", "children",
     "addFirstChild", "addLastChild", "insertChild", "removeChild",
     "firstChild", "lastChild", "child", "first", "last", "eq", "prevNode",
     "prevNodeAll", "nextNode", "nextNodeAll", "insertElementBefore",
     "insertElementAfter", "dom"}

\* The cases of the switch of $.forQuery
SwitchNames ==
    {"on", "bind", "css", "attr", "text", "html", "class", "addClass",
     "delClass", "toggle", "addFirstChild", "addLastChild", "insertChild",
     "removeChild", "parent", "parentAll", "children", "firstChild",
     "lastChild", "first", "last", "eq", "prevNode", "prevNodeAll",
     "nextNode", "nextNodeAll", "insertElementBefore", "insertElementAfter"}

\* The method table: Query.prototype[name], applied to this and args
Invoke(name, D, this, args) ==
    CASE name = "on" -> on(D, this, args)
      [] name = "bind" -> bind(D, this, args)
      [] name = "css" -> css(D, this, args)
      [] name = "attr" -> attr(D, this, args)
      [] name = "text" -> text(D, this, args)
      [] name = "html" -> html(D, this, args)
      [] name = "class" -> class(D, this, args)
      [] name = "addClass" -> addClass(D, this, args)
      [] name = "delClass" -> delClass(D, this, args)
      [] name = "toggle" -> toggle(D, this, args)
      [] name = "addFirstChild" -> addFirstChild(D, this, args)
      [] name = "addLastChild" -> addLastChild(D, this, args)
      [] name = "insertChild" -> insertChild(D, this, args)
      [] name = "removeChild" -> removeChild(D, this, args)
      [] name = "parent" -> parent(D, this, args)
      [] name = "parentAll" -> parentAll(D, this, args)
      [] name = "children" -> children(D, this, args)
      [] name = "firstChild" -> firstChild(D, this, args)
      [] name = "lastChild" -> lastChild(D, this, args)
      [] name = "child" -> child(D, this, args)
      [] name = "first" -> first(D, this, args)
      [] name = "last" -> last(D, this, args)
      [] name = "eq" -> eq(D, this, args)
      [] name = "prevNode" -> prevNode(D, this, args)
      [] name = "prevNodeAll" -> prevNodeAll(D, this, args)
      [] name = "nextNode" -> nextNode(D, this, args)
      [] name = "nextNodeAll" -> nextNodeAll(D, this, args)
      [] name = "insertElementBefore" -> insertElementBefore(D, this, args)
      [] name = "insertElementAfter" -> insertElementAfter(D, this, args)
      [] name = "dom" -> dom_(D, this, args)

\* A variant of the call below in which a traversal narrows the receiver to
\* what it found, and returns that
CallNarrowing(name, D, this, args) ==
    LET m == Invoke(name, D, this, args)
    IN [D |-> m.D, r |-> m.r, self |-> IF m.r.k = "new" THEN m.r.q ELSE this]

\* this[name](...args): the document the call leaves, what it ends with, and
\* the receiver after it (self). No method assigns to this.length or to an
\* entry of this: the receiver is after the call what it was before.
Call(name, D, this, args) ==
    LET m == Invoke(name, D, this, args)
    IN [D |-> m.D, r |-> m.r, self |-> this]

\* Querys.__proto__.hasOwnProperty(func): the prototype of a Query object is
\* Query.prototype; an array and a node list have the prototypes of the
\* language and of the DOM, which hold none of the library's methods.
hasOwnProperty(Querys, func) ==
    CASE Querys.t = "query" -> func \in PrototypeNames
      [] Querys.t = "array" -> func \in {"map", "forEach", "push"}
      [] Querys.t = "nodelist" -> func \in {"item", "forEach"}
      [] OTHER -> FALSE

\* The first step of $.forQuery(Querys, func, ...arg): "loop" when the
\* switch reaches a loop, "throw" in its default case, "return" when the
\* method is not found (the switch is passed over and dom, still empty, is
\* returned: dom == [] compares two different arrays and is false).
forQueryEnter(Querys, func) ==
    IF hasOwnProperty(Querys, func)
    THEN IF func \in SwitchNames THEN "loop" ELSE "throw"
    ELSE "return"

\* A variant of the round below that takes entry 0 whatever the index
forQueryRoundFirst(D, Querys, func, arg, i) ==
    LET thisDom == Query(IndexOf(Querys, 0), Null) IN
    IF thisDom.k = "throw" THEN Res(D, thisDom)
    ELSE LET got == Call(func, D, thisDom.q, arg)
         IN IF got.r.k = "this" THEN Res(got.D, [got.r EXCEPT !.q = got.self])
            ELSE Res(got.D, got.r)

\* One round of the loop: thisDom = new Query(Querys[i], null), then
\* dom.push(thisDom[func](...arg)). The result is [D, r]; r.q is the Query
\* object the round pushes when the method returned one.
forQueryRound(D, Querys, func, arg, i) ==
    LET thisDom == Query(IndexOf(Querys, i), Null) IN
    IF thisDom.k = "throw" THEN Res(D, thisDom)
    ELSE LET got == Call(func, D, thisDom.q, arg)
         IN IF got.r.k = "this" THEN Res(got.D, [got.r EXCEPT !.q = got.self])
            ELSE Res(got.D, got.r)

-----------------------------------------------------------------------------
\* The program as a state machine: a script calling $, the methods of the
\* Query objects it holds, and $.forQuery.

VARIABLES
    doc,      \* the document
    handles,  \* the Query objects the script holds, in the order it got them
    ret,      \* the last call and what it ended with
    fq        \* the call of $.forQuery in progress, or the last one

vars == <<doc, handles, ret, fq>>

\* The document the script starts with:
\* document > html(1) > [div(2) > [span(4)], div.a(3)]
InitDoc ==
    [alloc |-> 4,
     kids |-> [n \in 0..MaxNodes |->
                 CASE n = Doc -> <<1>> [] n = 1 -> <<2, 3>> [] n = 2 -> <<4>>
                   [] OTHER -> <<>>],
     tag |-> [n \in Nodes |->
                 CASE n = 1 -> "HTML" [] n \in {2, 3} -> "DIV" [] n = 4 -> "SPAN"
                   [] OTHER -> "P"],
     cls |-> [n \in Nodes |-> IF n = 3 THEN <<"a">> ELSE <<>>],
     attrs |-> [n \in Nodes |-> [a \in AttrNames |-> Null]],
     style |-> [n \in Nodes |-> [a \in PropNames |-> <<>>]],
     content |-> [n \in Nodes |-> <<>>],
     events |-> [n \in 0..MaxNodes |-> {}],
     docProps |-> [a \in {"innerText", "innerHTML", "className"} |-> Undef]]

\* A record of a call: the method, the receiver (an index of handles, 0 for
\* $ and $.forQuery), the arguments, the result r and, when the result is a
\* list (r.k = "list"), its entries l.
Ret(op, h, args, r, l) == [op |-> op, h |-> h, args |-> args, r |-> r, l |-> l]

Idle ==
    [pc |-> "idle", Querys |-> Undef, h |-> 0, func |-> "", arg |-> <<>>,
     i |-> 0, out |-> <<>>, visited |-> <<>>]

Init ==
    /\ doc = InitDoc
    /\ handles = <<>>
    /\ ret = Ret("", 0, <<>>, RNothing, <<>>)
    /\ fq = Idle

\* The script keeps the Query object a call returns.
Keep(r) == IF r.k = "new" THEN Append(handles, r.q) ELSE handles

\* $(x)
Enter(x) ==
    \E r \in {Dollar(doc, x)} :
    /\ fq.pc = "idle"
    /\ r.k = "new" => Len(handles) < MaxHandles
    /\ handles' = Keep(r)
    /\ ret' = Ret("$", 0, <<x>>, r, <<>>)
    /\ UNCHANGED <<doc, fq>>

\* handles[h][name](...args). The script keeps the Query object the call
\* returns while it has room for one, and lets it go otherwise.
Method(name, h, args) ==
    \E res \in {Call(name, doc, handles[h], args)} :
    /\ fq.pc = "idle"
    /\ res.D.alloc <= MaxNodes
    /\ doc' = res.D
    /\ handles' = IF res.r.k = "new" /\ Len(handles) < MaxHandles
                  THEN Append([handles EXCEPT ![h] = res.self], res.r.q)
                  ELSE [handles EXCEPT ![h] = res.self]
    /\ ret' = Ret(name, h, args, res.r, <<>>)
    /\ UNCHANGED fq

\* The methods that create an element for a primitive argument
CreatingNames ==
    {"addFirstChild", "addLastChild", "insertChild", "insertElementBefore",
     "insertElementAfter"}

\* $.forQuery(Querys, func, ...arg) up to its loop. Querys is handles[h]
\* when h > 0, else the value given.
ForQueryCall(h, given, func, arg) ==
    LET Querys == IF h > 0 THEN QueryV(handles[h].items) ELSE given
        enter == forQueryEnter(Querys, func)
        call == [Idle EXCEPT !.Querys = Querys, !.h = h, !.func = func,
                             !.arg = arg]
    IN
    /\ fq.pc = "idle"
    /\ func \in CreatingNames => doc.alloc + Len(Querys.xs) <= MaxNodes
    /\ fq' = IF enter = "loop" THEN [call EXCEPT !.pc = "loop"] ELSE call
    /\ ret' = CASE enter = "loop" -> Ret("forQuery", h, arg, R("pending", NoQ, Undef, ""), <<>>)
                [] enter = "throw" ->
                     Ret("forQuery", h, arg, RThrow("UnknownOperationError"), <<>>)
                [] OTHER -> Ret("forQuery", h, arg, R("list", NoQ, Undef, ""), <<>>)
    /\ UNCHANGED <<doc, handles>>

\* A variant of the step below that passes over a raise and goes on with
\* the next element
ForQueryStepOn ==
    /\ fq.pc = "loop"
    /\ fq.i < LengthOf(fq.Querys).n
    /\ \E res \in {forQueryRound(doc, fq.Querys, fq.func, fq.arg, fq.i)} :
        /\ doc' = res.D
        /\ fq' = [fq EXCEPT !.i = @ + 1, !.out = Append(@, res.r),
                            !.visited = Append(@, fq.i)]
        /\ UNCHANGED ret
    /\ UNCHANGED handles

\* One round of the loop of $.forQuery: a throw ends the call.
ForQueryStep ==
    /\ fq.pc = "loop"
    /\ fq.i < LengthOf(fq.Querys).n
    /\ \E res \in {forQueryRound(doc, fq.Querys, fq.func, fq.arg, fq.i)} :
        /\ doc' = res.D
        /\ IF res.r.k = "throw"
           THEN /\ fq' = [fq EXCEPT !.pc = "idle", !.visited = Append(@, fq.i)]
                /\ ret' = [ret EXCEPT !.r = res.r]
           ELSE /\ fq' = [fq EXCEPT !.i = @ + 1, !.out = Append(@, res.r),
                                    !.visited = Append(@, fq.i)]
                /\ UNCHANGED ret
    /\ UNCHANGED handles

\* The end of the loop: return dom
ForQueryReturn ==
    /\ fq.pc = "loop"
    /\ ~(fq.i < LengthOf(fq.Querys).n)
    /\ fq' = [fq EXCEPT !.pc = "idle"]
    /\ ret' = [ret EXCEPT !.r = R("list", NoQ, Undef, ""), !.l = fq.out]
    /\ UNCHANGED <<doc, handles>>

-----------------------------------------------------------------------------
\* The entry point on every shape of input

RECURSIVE SeqsUpTo(_, _)
\* The sequences over S of length at most n
SeqsUpTo(S, n) ==
    IF n = 0 THEN {<<>>}
    ELSE SeqsUpTo(S, n - 1) \cup
         {Append(q, x) : q \in {q \in SeqsUpTo(S, n - 1) : Len(q) = n - 1}, x \in S}

Selectors == {Str(<<"div">>), Str(<<"span">>), Str(<<"p">>), Str(<<".a">>)}
SomeNodes == {NodeV(2), NodeV(3)}
Collections ==
    {Arr(xs) : xs \in SeqsUpTo(SomeNodes, MaxLen)}
    \cup {NodeList(xs) : xs \in SeqsUpTo(SomeNodes, MaxLen)}
Others == {Num(5), Num(0), Bool(TRUE), Bool(FALSE), Null, Undef, Func}

EntryInputs == Selectors \cup SomeNodes \cup {NodeV(4)} \cup Collections \cup Others

EnterAny == \E x \in EntryInputs : Enter(x)

IndexAny ==
    \E h \in 1..Len(handles), name \in {"eq", "first", "last"},
       i \in {Num(0), Num(1), Num(2)} :
        Method(name, h, IF name = "eq" THEN <<i>> ELSE <<>>)

NextEntry == EnterAny \/ IndexAny

SpecEntry == Init /\ [][NextEntry]_vars

\* C4: $ called with a number, a boolean, null or a function fails with the
\* entry point's own InvalidInputError and builds no Query object.
C4_InvalidInputRaisesOwnError ==
    (ret.op = "$" /\ ret.args[1].t \in {"number", "boolean", "null", "function"})
        => (ret.r.k = "throw" /\ ret.r.e = "InvalidInputError")

\* The nodes a selector matches in the document, in document order
MatchesOf(sel) == QuerySelectorAll(doc, Doc, sel).v.xs

\* C5: $ copies its input faithfully: a selector with n matches and a
\* collection of length n (n >= 0) give a Query object of length n whose
\* entry i is the i-th source node; a single node, and eq(i) with i in range,
\* give a Query object of length 1 holding that node.
C5_NormalizationIsFaithfulCopy ==
    /\ (ret.op = "$" /\ ret.args[1].t = "string")
          => /\ ret.r.k = "new"
             /\ ret.r.q.length = Num(Len(MatchesOf(ret.args[1])))
             /\ ret.r.q.items = MatchesOf(ret.args[1])
    /\ (ret.op = "$" /\ ret.args[1].t \in {"array", "nodelist"})
          => /\ ret.r.k = "new"
             /\ ret.r.q.length = Num(Len(ret.args[1].xs))
             /\ ret.r.q.items = ret.args[1].xs
    /\ (ret.op = "$" /\ ret.args[1].t = "node")
          => /\ ret.r.k = "new"
             /\ ret.r.q.length = Num(1)
             /\ ret.r.q.items = <<ret.args[1]>>
    /\ (ret.op = "eq" /\ ret.args[1].n < Len(handles[ret.h].items))
          => /\ ret.r.k = "new"
             /\ ret.r.q.length = Num(1)
             /\ ret.r.q.items = <<handles[ret.h].items[ret.args[1].n + 1]>>

-----------------------------------------------------------------------------
\* Reads and traversals, on empty Query objects too

ReadNames ==
    {"css", "attr", "text", "html", "class", "parent", "children",
     "firstChild", "lastChild", "first", "last", "eq", "prevNode", "nextNode",
     "dom"}

\* The argument lists of the reads and traversals
ReadArgs(name) ==
    CASE name = "css" -> {<<Str(<<"color">>)>>, <<Str(<<"--x">>)>>}
      [] name = "attr" -> {<<Str(<<"title">>)>>}
      [] name = "parent" -> {<<>>, <<Num(2)>>, <<Str(<<"div">>)>>}
      [] name = "children" -> {<<>>, <<Num(0)>>, <<Str(<<"span">>)>>}
      [] name = "eq" -> {<<Num(0)>>, <<Num(1)>>}
      [] name \in {"prevNode", "nextNode"} -> {<<>>, <<Num(1)>>}
      [] OTHER -> {<<>>}

EnterSelector == \E x \in {Str(<<"p">>), Str(<<"div">>), Str(<<"span">>)} : Enter(x)

ReadAny ==
    \E h \in 1..Len(handles), name \in ReadNames :
        \E args \in ReadArgs(name) : Method(name, h, args)

NextRead == EnterSelector \/ ReadAny

SpecRead == Init /\ [][NextRead]_vars

\* C6: a read or a traversal that needs a single target fails on a Query
\* object of length 0: it returns no value, no undefined and no empty Query
\* object.
C6_EmptyHandleReadFails ==
    (ret.op \in ReadNames /\ handles[ret.h].length = Num(0))
        => ret.r.k = "throw"

-----------------------------------------------------------------------------
\* The chainable methods: css, attr, text, html, class, addClass, delClass,
\* toggle, on and bind

ChainNames ==
    {"css", "attr", "text", "html", "class", "addClass", "delClass", "toggle",
     "on", "bind"}

Click == Obj(<<Pair("on", Str(<<"click">>)), Pair("func", Func)>>)

\* The argument lists of the chainable methods
ChainArgs(name) ==
    CASE name = "css" ->
            {<<>>, <<Str(<<"color">>)>>, <<Obj(<<Pair("color", Str(<<"red">>))>>)>>,
             <<Str(<<"color">>), Str(<<"red">>)>>}
      [] name = "attr" ->
            {<<Str(<<"title">>)>>, <<Obj(<<Pair("title", Str(<<"hi">>))>>)>>,
             <<Str(<<"title">>), Str(<<"hi">>)>>}
      [] name \in {"text", "html"} -> {<<>>, <<Str(<<"hi">>)>>}
      [] name = "class" -> {<<>>, <<Str(<<"a">>)>>, <<Num(5)>>}
      [] name = "addClass" -> {<<Str(<<"a">>)>>, <<Str(<<"a">>), Str(<<"b">>)>>}
      [] name = "delClass" -> {<<>>, <<Str(<<"a">>)>>}
      [] name = "toggle" -> {<<Str(<<"a">>)>>}
      [] name = "on" -> {<<Str(<<"click">>), Func>>, <<Num(5), Func>>}
      [] name = "bind" -> {<<Click>>, <<Arr(<<Click>>)>>, <<Num(5)>>}

\* $("span") holds one element, $("p") none.
EnterSpan == \E x \in {Str(<<"span">>), Str(<<"p">>)} : Enter(x)

ChainAny ==
    \E h \in 1..Len(handles), name \in ChainNames :
        \E args \in ChainArgs(name) : Method(name, h, args)

NextChain == EnterSpan \/ ChainAny

SpecChain == Init /\ [][NextChain]_vars

\* The read forms: no argument for text, html and class; one string, the
\* name, for css and attr.
ReadMode(name, args) ==
    \/ name \in {"text", "html", "class"} /\ Len(args) = 0
    \/ name \in {"css", "attr"} /\ Len(args) = 1 /\ TypeOf(args[1]) = "string"

\* The value a read form reads from element n
ReadOf(name, args, n) ==
    CASE name = "css" -> GetPropertyValue(doc, n, Word(args[1]))
      [] name = "attr" -> GetAttribute(doc, n, Word(args[1]))
      [] name = "text" -> Str(InnerText(doc, n))
      [] name = "html" -> Str(InnerHTML(doc, n))
      [] name = "class" -> Str(doc.cls[n])

\* C8: a call of a chainable method that does not throw returns the
\* receiver when it is a write and the value read from items[0] when it is
\* a read; none returns nothing.
C8_WriteReturnsHandleReadReturnsValue ==
    (ret.op \in ChainNames /\ ret.r.k # "throw")
        => IF ReadMode(ret.op, ret.args)
           THEN /\ ret.r.k = "value"
                /\ ret.r.v # Undef
                /\ ret.r.v = ReadOf(ret.op, ret.args, handles[ret.h].items[1].n)
           ELSE ret.r.k = "this"

-----------------------------------------------------------------------------
\* css(name, value) and attr(name, value) on every kind of value

StyleValues == {Str(<<"red">>), Num(5), Bool(TRUE), Obj(<<>>)}

StyleArgs(name) ==
    {<<Str(<<IF name = "css" THEN "--x" ELSE "title">>), v>> : v \in StyleValues}
    \cup (IF name = "css" THEN {<<Str(<<"color">>), v>> : v \in StyleValues}
          ELSE {})
    \cup {<<Str(<<IF name = "css" THEN "--x" ELSE "title">>)>>}

StyleAny ==
    \E h \in 1..Len(handles), name \in {"css", "attr"} :
        \E args \in StyleArgs(name) : Method(name, h, args)

NextStyle == EnterSpan \/ StyleAny

SpecStyle == Init /\ [][NextStyle]_vars

\* C9: css(name, value) and attr(name, value) write only a value that is a
\* string or a number; with a value of another type the document is left as
\* it was.
C9_TwoArgumentWriteValidatesValue ==
    [][(/\ ret'.op \in {"css", "attr"}
        /\ Len(ret'.args) = 2
        /\ TypeOf(ret'.args[2]) \notin {"string", "number"})
          => doc' = doc]_vars

-----------------------------------------------------------------------------
\* class, addClass and delClass on every kind of argument

ClassValues ==
    {Str(<<"a">>), Str(<<"b">>), Num(5), Bool(TRUE), Obj(<<>>),
     Arr(<<Str(<<"a">>), Str(<<"b">>)>>), Arr(<<Num(5)>>)}

ClassArgs(name) ==
    {<<v>> : v \in ClassValues} \cup {<<>>}
    \cup (IF name = "class" THEN {}
          ELSE {<<Str(<<"a">>), Num(5)>>, <<Str(<<"b">>), Str(<<"a">>)>>})

ClassAny ==
    \E h \in 1..Len(handles), name \in {"class", "addClass", "delClass", "toggle"} :
        \E args \in ClassArgs(name) : Method(name, h, args)

NextClass == EnterSpan \/ ClassAny

SpecClass == Init /\ [][NextClass]_vars

\* A class-name argument of the kind the claim is about: one that is not a
\* string and (for addClass and delClass) not an array of strings.
IsClassName(name, v) ==
    \/ v.t = "string"
    \/ /\ name # "class"
       /\ v.t = "array"
       /\ \A i \in 1..Len(v.xs) : v.xs[i].t = "string"

\* C10: class, addClass and delClass given an argument that is no class
\* name throw UnsupportedArgumentError and leave the classes as they were.
C10_NonStringClassNameRaises ==
    [][(/\ ret'.op \in {"class", "addClass", "delClass"}
        /\ \E i \in 1..Len(ret'.args) : ~IsClassName(ret'.op, ret'.args[i]))
          => /\ ret'.r = RThrow("UnsupportedArgumentError")
             /\ doc'.cls = doc.cls]_vars

-----------------------------------------------------------------------------
\* $.forQuery over one Query object, and over plain collections

\* The collections are the runs of at most MaxLen entries of this one
BatchPattern == <<NodeV(3), NodeV(2), NodeV(1), NodeV(Doc), NodeV(3)>>

BatchRuns ==
    {SubSeq(BatchPattern, ab[1], ab[2]) :
        ab \in {ab \in (1..Len(BatchPattern)) \X (0..Len(BatchPattern)) :
                    ab[2] - ab[1] + 1 <= MaxLen}}

\* The script builds one Query object
EnterFirst ==
    /\ handles = <<>>
    /\ \E x \in {Arr(xs) : xs \in BatchRuns} \cup {Str(<<"div">>), Str(<<"p">>)} :
          Enter(x)

BatchFuncs ==
    {"addClass", "children", "text", "doesNotExist", "each"}

BatchArg(func) ==
    CASE func = "addClass" -> <<Str(<<"x">>)>>
      [] func = "children" -> <<Num(0)>>
      [] OTHER -> <<>>

ForQueryHandle ==
    \E h \in 1..Len(handles), func \in BatchFuncs :
        ForQueryCall(h, Undef, func, BatchArg(func))

\* The names dispatched over plain collections
PlainFuncs == {"addClass", "text", "doesNotExist", "map"}

ForQueryPlain ==
    \E xs \in {xs \in BatchRuns : Len(xs) \in {0, MaxLen}}, func \in PlainFuncs :
        \/ ForQueryCall(0, Arr(xs), func, BatchArg(func))
        \/ ForQueryCall(0, NodeList(xs), func, BatchArg(func))

NextBatch ==
    \/ EnterFirst
    \/ ForQueryHandle
    \/ ForQueryPlain
    \/ ForQueryStep
    \/ ForQueryReturn

SpecBatch == Init /\ [][NextBatch]_vars

\* The call of $.forQuery has ended, by a return or a throw
Ended == ret.op = "forQuery" /\ ret.r.k # "pending"

\* C1: $.forQuery with a name that is not a method of Query objects raises
\* UnknownOperationError on every collection, and no element is operated on.
C1_UnknownOperationRaises ==
    (Ended /\ fq.func \notin PrototypeNames)
        => /\ ret.r = RThrow("UnknownOperationError")
           /\ fq.visited = <<>>

\* The element of round j (j = 1 for index 0) of the call
Element(j) == fq.Querys.xs[j].n

\* The rounds 0 .. n - 1, in order
Rounds(n) == [j \in 1..n |-> j - 1]

\* The Query object q holds the node n and nothing else
Holds(q, n) == q.length = Num(1) /\ q.items = <<NodeV(n)>>

\* The result of round j is the result of the method on element j: the
\* Query object of that element alone for a write, the text of the element
\* for text(), a Query object of its first child for children(0).
ResultFor(j) ==
    /\ ret.l[j].k = "this" => Holds(ret.l[j].q, Element(j))
    /\ fq.func = "addClass" => ret.l[j].k = "this"
    /\ (fq.func = "text" /\ Element(j) \in Nodes)
          => ret.l[j] = RVal(Str(InnerText(doc, Element(j))))
    /\ fq.func = "children"
          => /\ ret.l[j].k = "new"
             /\ Holds(ret.l[j].q, doc.kids[Element(j)][1])

\* What a dispatch returned has done, for a collection of n entries
Dispatched(n) ==
    /\ Len(ret.l) = n
    /\ fq.visited = Rounds(n)
    /\ \A j \in 1..n : j <= Len(ret.l) /\ ResultFor(j)
    /\ fq.func = "addClass" => \A j \in 1..n : HasClass(doc, Element(j), "x")

Round == forQueryRound(doc, fq.Querys, fq.func, fq.arg, fq.i).r

\* The effect of a write on an element
EffectOn(D, func, e) == func = "addClass" => HasClass(D, e, "x")

\* C3: the rounds go in order, one element at a time; when the method raises
\* on element i the call ends with that raise and no list, the effects on
\* the elements before i are still there, and no element after i is
\* operated on.
C3_DispatchStopsAtFirstRaise ==
    /\ [](fq.pc = "loop" => /\ fq.visited = Rounds(fq.i)
                            /\ Len(fq.out) = fq.i)
    /\ [][(fq.pc = "loop" /\ fq.i < Len(fq.Querys.xs) /\ Round.k = "throw")
            => /\ fq'.pc = "idle"
               /\ ret'.r = Round
               /\ ret'.l = <<>>
               /\ fq'.visited = Rounds(fq.i + 1)
               /\ \A j \in 1..fq.i : EffectOn(doc', fq.func, Element(j))]_vars

C3_Witness ==
    /\ Ended /\ ret.r.k = "throw"
    /\ fq.func = "addClass"
    /\ fq.i = 1
    /\ Len(fq.Querys.xs) = 3
    /\ fq.visited = <<0, 1>>
    /\ HasClass(doc, Element(1), "x")
    /\ ~HasClass(doc, Element(3), "x")

-----------------------------------------------------------------------------
\* The whole library: a script that builds Query objects, calls their
\* methods and dispatches over them

EnterSome == \E x \in {Str(<<"div">>), NodeV(2)} : Enter(x)

\* The calls of the script: a method and its arguments
Calls ==
    {<<"removeChild", <<>>>>,
     <<"insertElementAfter", <<NodeV(4)>>>>,
     <<"text", <<>>>>,
     <<"children", <<>>>>,
     <<"eq", <<Num(1)>>>>}

MethodAny == \E h \in 1..Len(handles), c \in Calls : Method(c[1], h, c[2])

ForQueryAny ==
    \E h \in 1..Len(handles), c \in {c \in Calls : c[1] \in {"removeChild", "text"}} :
        ForQueryCall(h, Undef, c[1], c[2])

Next ==
    \/ EnterSome
    \/ MethodAny
    \/ ForQueryAny
    \/ ForQueryStep
    \/ ForQueryReturn

Spec == Init /\ [][Next]_vars

Attached(n) == IsAncestorOrSelf(doc, Doc, n)

-----------------------------------------------------------------------------
\* A write followed at once by the read of the same property

\* handles[h][name](...wargs); handles[h][name](...rargs): the record keeps
\* the arguments of the write, what the write ended with (l) and what the
\* read ended with (r). A write that throws ends the step.
WriteRead(name, h, wargs, rargs) ==
    \E w \in {Call(name, doc, handles[h], wargs)} :
    \E rd \in {Call(name, w.D, handles[h], rargs)} :
    /\ fq.pc = "idle"
    /\ doc' = IF w.r.k = "throw" THEN w.D ELSE rd.D
    /\ ret' = IF w.r.k = "throw" THEN Ret(name, h, wargs, w.r, <<>>)
              ELSE Ret(name, h, wargs, rd.r, <<w.r>>)
    /\ UNCHANGED <<handles, fq>>

TripProps == {"color", "--x", "backgroundColor"}
TripValues(name) ==
    CASE name = "css" -> {Str(<<"red">>)}
      [] name = "class" -> {Str(<<"a", "b">>)}
      [] name = "attr" -> {Str(<<"hi">>), Num(5)}
      [] OTHER -> {Str(<<"hi">>)}

\* The writes of a value v, and the name each is under ("" for text, html
\* and class)
TripWrites(name) ==
    CASE name = "css" ->
            {<<k, <<Str(<<k>>), v>>>> : k \in TripProps, v \in TripValues(name)}
            \cup {<<k, <<Obj(<<Pair(k, v)>>)>>>> : k \in TripProps, v \in TripValues(name)}
      [] name = "attr" ->
            {<<"title", <<Str(<<"title">>), v>>>> : v \in TripValues(name)}
            \cup {<<"title", <<Obj(<<Pair("title", v)>>)>>>> : v \in TripValues(name)}
      [] OTHER -> {<<"", <<v>>>> : v \in TripValues(name)}

TripAny ==
    \E h \in 1..Len(handles), name \in {"css", "attr", "text", "html", "class"} :
        \E t \in TripWrites(name) :
            WriteRead(name, h, t[2], IF t[1] = "" THEN <<>> ELSE <<Str(<<t[1]>>)>>)

EnterElement == \E x \in {Str(<<"span">>)} : Enter(x)

NextTrip == EnterElement \/ TripAny

SpecTrip == Init /\ [][NextTrip]_vars

\* The value written by the arguments of a write
Written(args) ==
    IF Len(args) = 2 THEN args[2]
    ELSE IF args[1].t = "object" THEN args[1].xs[1].xs[1]
    ELSE args[1]

\* A read value is equivalent to the value written: the same text, or for a
\* style the computed form of the same colour
Equivalent(got, v) ==
    /\ got.t = "string"
    /\ \/ got.w = ToWords(v)
       \/ \E p \in PropNames : got.w = ComputedForm(p, ToWords(v))

\* C11: a write of v by css, attr, text, html or class on a Query object
\* with an element, followed at once by the read of the same name on the
\* same Query object, reads a value equivalent to v.
C11_WriteThenReadRoundTrip ==
    (Len(ret.l) = 1 /\ ret.l[1].k = "this")
        => /\ ret.r.k = "value"
           /\ Equivalent(ret.r.v, Written(ret.args))

-----------------------------------------------------------------------------
\* addClass and delClass on lists of class names and of arrays of them

SetItems ==
    {Str(<<"a">>), Str(<<"b">>), Arr(<<Str(<<"b">>), Str(<<"a">>)>>)}

\* $(".a") holds an element with the class a, $("span") one without classes
EnterClassed == \E x \in {Str(<<".a">>), Str(<<"span">>)} : Enter(x)

SetAny ==
    \E h \in 1..Len(handles), name \in {"addClass", "delClass"} :
        \E args \in SeqsUpTo(SetItems, MaxArgs) : Method(name, h, args)

NextSet == EnterClassed \/ SetAny

SpecSet == Init /\ [][NextSet]_vars

\* The set of the class names of element n
ClassSet(D, n) == {D.cls[n][i] : i \in 1..Len(D.cls[n])}

\* Every leaf string of an argument list: the string arguments and the
\* entries of the array arguments
LeafSet(args) ==
    {args[i].w[1] : i \in {i \in 1..Len(args) : args[i].t = "string"}}
    \cup UNION {{args[i].xs[j].w[1] : j \in 1..Len(args[i].xs)} :
                  i \in {i \in 1..Len(args) : args[i].t = "array"}}

\* What a step of addClass or delClass does to the class set of items[0]
SetStep(n) ==
    /\ ret'.op = "addClass"
          => ClassSet(doc', n) = ClassSet(doc, n) \cup LeafSet(ret'.args)
    /\ ret'.op = "delClass"
          => ClassSet(doc', n) = ClassSet(doc, n) \ LeafSet(ret'.args)

\* C12 (as amended): for a non-empty argument list of strings and arrays of
\* strings, addClass leaves the class set of items[0] the prior set united
\* with every leaf string and delClass leaves it the prior set minus every
\* leaf string, whatever the order of the arguments; delClass with no
\* argument leaves the element without classes.
C12_ClassSetSemantics ==
    [][(ret'.op \in {"addClass", "delClass"} /\ ret'.r.k = "this")
         => IF Len(ret'.args) > 0
            THEN SetStep(handles[ret'.h].items[1].n)
            ELSE ClassSet(doc', handles[ret'.h].items[1].n) = {}]_vars

\* C12 as stated: the same for every argument list, the empty one too.
C12_ClassSetSemanticsAnyList ==
    [][(ret'.op \in {"addClass", "delClass"} /\ ret'.r.k = "this")
         => SetStep(handles[ret'.h].items[1].n)]_vars

\* addClass with b and a, in an array, then delClass("a"), on the element
\* without classes
C12_Witness ==
    /\ ret.op = "delClass"
    /\ ret.args = <<Str(<<"a">>)>>
    /\ ret.r.k = "this"
    /\ handles[ret.h].items = <<NodeV(4)>>
    /\ doc.cls[4] = <<"b">>

-----------------------------------------------------------------------------
\* parent(n) at every depth

EnterNode == \E n \in 1..4 : Enter(NodeV(n))

\* addLastChild(node 3) moves the second div under the receiver's element
MoveAny == \E h \in 1..Len(handles) : Method("addLastChild", h, <<NodeV(3)>>)

ParentAny ==
    \E h \in 1..Len(handles), n \in 2..MaxNodes : Method("parent", h, <<Num(n)>>)

NextParent == EnterNode \/ MoveAny \/ ParentAny

SpecParent == Init /\ [][NextParent]_vars

RECURSIVE Depth(_, _)
\* The number of ancestors of an attached node, the document object counted
Depth(D, n) == IF n = Doc THEN 0 ELSE 1 + Depth(D, ParentOf(D, n))

RECURSIVE Ancestor(_, _, _)
\* The k-th ancestor of n
Ancestor(D, n, k) == IF k = 0 THEN n ELSE Ancestor(D, ParentOf(D, n), k - 1)

\* The node a call yielded: the entry of the Query object it built, or the
\* value it returned
Yielded(r) ==
    CASE r.k = "new" /\ r.q.length = Num(1) -> r.q.items[1]
      [] r.k = "value" -> r.v
      [] OTHER -> Undef

\* C13: on an element in the document with d ancestors, parent(n) with an
\* integer n > 1 does not raise and yields the n-th ancestor when n <= d and
\* the top ancestor, the document object, when n > d.
C13_ParentNthAncestorOrTop ==
    (/\ ret.op = "parent"
     /\ handles[ret.h].length = Num(1)
     /\ Attached(handles[ret.h].items[1].n))
        => LET e == handles[ret.h].items[1].n
               n == ret.args[1].n
               d == Depth(doc, e)
           IN /\ ret.r.k # "throw"
              /\ Yielded(ret.r) = NodeV(Ancestor(doc, e, IF n <= d THEN n ELSE d))

\* parent(2) on an element four levels down, and parent(n) past the top
C13_Witness ==
    /\ ret.op = "parent"
    /\ Depth(doc, handles[ret.h].items[1].n) = 4
    /\ ret.args[1].n = 2
    /\ ret.r.k = "new"
    /\ Yielded(ret.r) = NodeV(2)

C13_WitnessPastTop ==
    /\ ret.op = "parent"
    /\ ret.args[1].n > Depth(doc, handles[ret.h].items[1].n)
    /\ Yielded(ret.r) = NodeV(Doc)

-----------------------------------------------------------------------------
\* The traversals and what they hand back

TraversalNames ==
    {"parent", "children", "firstChild", "lastChild", "child", "first", "last",
     "eq", "prevNode", "nextNode", "prevNodeAll", "nextNodeAll"}

TraversalArgs(name) ==
    CASE name = "parent" -> {<<>>, <<Num(2)>>, <<Num(5)>>, <<Str(<<"div">>)>>}
      [] name = "children" -> {<<>>, <<Num(0)>>, <<Str(<<"span">>)>>}
      [] name \in {"child", "eq"} -> {<<Num(0)>>}
      [] name \in {"prevNode", "nextNode"} -> {<<>>, <<Num(1)>>}
      [] name \in {"prevNodeAll", "nextNodeAll"} -> {<<>>, <<Str(<<"div">>)>>}
      [] OTHER -> {<<>>}

EnterTree == \E x \in {Str(<<"div">>), Str(<<"span">>)} : Enter(x)

TraverseAny ==
    \E h \in 1..Len(handles), name \in TraversalNames :
        \E args \in TraversalArgs(name) : Method(name, h, args)

NextTraverse == EnterTree \/ TraverseAny

SpecTraverse == Init /\ [][NextTraverse]_vars

\* C14: a traversal that returns hands back a Query object built by the
\* call, never a node, an array of nodes or the receiver.
C14_TraversalReturnsNewQueryObject ==
    (ret.op \in TraversalNames /\ ret.r.k # "throw") => ret.r.k = "new"

-----------------------------------------------------------------------------
\* removeChild on elements with any number of children

\* addLastChild(node) moves the second div or the span under the receiver's
\* element
AppendAny ==
    \E h \in 1..Len(handles), m \in {3, 4} : Method("addLastChild", h, <<NodeV(m)>>)

RemoveAny ==
    \E h \in 1..Len(handles), args \in {<<>>, <<Num(0)>>, <<Num(1)>>} :
        Method("removeChild", h, args)

NextRemove == EnterNode \/ AppendAny \/ RemoveAny

SpecRemove == Init /\ [][NextRemove]_vars

\* The element the call recorded in ret' is on
Target == handles[ret'.h].items[1].n

\* C15: removeChild() on an element with k children (k >= 0) does not raise
\* and leaves it without children: every former child is out of the tree,
\* and the children of no other node change.
C15_RemoveAllChildren ==
    [][(ret'.op = "removeChild" /\ ret'.args = <<>>)
         => /\ ret'.r.k # "throw"
            /\ doc'.kids[Target] = <<>>
            /\ \A c \in 1..Len(doc.kids[Target]) :
                  ParentOf(doc', doc.kids[Target][c]) = NoNode
            /\ \A p \in 0..MaxNodes : p # Target => doc'.kids[p] = doc.kids[p]]_vars

\* removeChild() has emptied an element that had three children
C15_Witness ==
    /\ ret.op = "removeChild" /\ ret.args = <<>>
    /\ handles[ret.h].items = <<NodeV(1)>>
    /\ doc.kids[1] = <<>>
    /\ \A c \in {2, 3, 4} : ParentOf(doc, c) = NoNode

\* C16: removeChild(i) with i an index of a child of items[0] removes that
\* child and no other: the other children stay, in their order.
C16_RemoveChildAtIndex ==
    [][(/\ ret'.op = "removeChild" /\ Len(ret'.args) = 1
        /\ ret'.args[1].n < Len(doc.kids[Target]))
         => doc'.kids[Target] =
               Without(doc.kids[Target], doc.kids[Target][ret'.args[1].n + 1])]_vars

-----------------------------------------------------------------------------
\* insertChild at every index

InsertIndexes == -1..MaxLen
InsertNodes == {Str(<<"hi">>), NodeV(4)}
InsertFlags == {<<Bool(TRUE)>>, <<Bool(FALSE)>>}

\* $(node) for the html element and the first div
EnterParent == \E n \in 1..2 : Enter(NodeV(n))

InsertAny ==
    \E h \in 1..Len(handles), i \in InsertIndexes, node \in InsertNodes,
       flag \in InsertFlags :
        Method("insertChild", h, <<Num(i), node>> \o flag)

NextInsert == EnterParent \/ InsertAny

SpecInsert == Init /\ [][NextInsert]_vars

\* The node a call of insertChild recorded in ret' is to place: the node
\* given, or the element created for a primitive
Placed ==
    IF ret'.args[2].t = "node" THEN ret'.args[2].n ELSE doc.alloc + 1

\* The call recorded in ret' is on a Query object whose first item is a node
OnElement ==
    /\ handles[ret'.h].items # <<>>
    /\ handles[ret'.h].items[1].t = "node"

Before == Len(ret'.args) = 3 /\ ret'.args[3] = Bool(TRUE)

\* Where insertChild(i, node, before) is to put the node among the k
\* children of the element, counted in the list without the node itself
PlacedRight(kids, kids1, x, i) ==
    LET k == Len(kids)
        old == Without(kids, x)
        pos == IF \E j \in 1..Len(kids1) : kids1[j] = x
               THEN CHOOSE j \in 1..Len(kids1) : kids1[j] = x ELSE 0
    IN
    /\ pos > 0
    /\ Without(kids1, x) = old
    /\ i < 0 => pos = 1
    /\ i >= k => pos = Len(kids1)
    /\ (0 <= i /\ i < k /\ kids[i + 1] # x) =>
          IF Before THEN pos < Len(kids1) /\ kids1[pos + 1] = kids[i + 1]
          ELSE pos > 1 /\ kids1[pos - 1] = kids[i + 1]

\* C17: insertChild(i, node, before) on an element with k children, for every
\* integer i and both flags, does not raise and puts the node first when i is
\* below the bounds, last when i is beyond them, and for 0 <= i < k right
\* before (before = true) or right after (before = false) the child formerly
\* at index i; the children that were there keep their order.
C17_InsertChildAtEveryIndex ==
    [][(/\ ret'.op = "insertChild" /\ OnElement
        /\ ~IsAncestorOrSelf(doc, Placed, Target))
         => /\ ret'.r.k # "throw"
            /\ PlacedRight(doc.kids[Target], doc'.kids[Target], Placed,
                           ret'.args[1].n)]_vars

\* The same statement for the indexes from 0 on
C17_InsertChildFromZero ==
    [][(/\ ret'.op = "insertChild" /\ OnElement /\ ret'.args[1].n >= 0
        /\ ~IsAncestorOrSelf(doc, Placed, Target))
         => /\ ret'.r.k # "throw"
            /\ PlacedRight(doc.kids[Target], doc'.kids[Target], Placed,
                           ret'.args[1].n)]_vars

-----------------------------------------------------------------------------
\* each over Query objects of every length

\* $("div"), $("span"), $("p") and $(node): two elements, one, none, one
EnterList ==
    \E x \in {Str(<<"div">>), Str(<<"span">>), Str(<<"p">>), NodeV(1)} : Enter(x)

\* What a callback returns on its successive calls
Returns == {Undef, Bool(TRUE), Bool(FALSE)}

\* handles[h].each(callBack); the calls of callBack are recorded in ret.l
Each(h, callBack) ==
    \E res \in {each(handles[h], callBack)} :
    /\ fq.pc = "idle"
    /\ ret' = Ret("each", h, <<callBack>>, res.r, res.calls)
    /\ UNCHANGED <<doc, handles, fq>>

EachAny ==
    \E h \in 1..Len(handles) :
        \E rs \in [1..Len(handles[h].items) -> Returns] :
            Each(h, FuncReturning(rs))

\* addLastChild("hi") puts a new p element under the receiver's element
AddAny == \E h \in 1..Len(handles) : Method("addLastChild", h, <<Str(<<"hi">>)>>)

NextEach == EnterList \/ AddAny \/ EachAny

SpecEach == Init /\ [][NextEach]_vars

\* C18: each(callBack) on a Query object of length n calls callBack once for
\* every element, in the order of the indexes 0..n-1, with the element and
\* its index, whatever callBack returns.
C18_EachVisitsEveryElement ==
    ret.op = "each" =>
        LET items == handles[ret.h].items IN
        /\ ret.r.k # "throw"
        /\ ret.l = [i \in 1..Len(items) |-> Arr(<<items[i], Num(i - 1)>>)]

-----------------------------------------------------------------------------
\* The insertion methods on a string and on a number

Primitives == {Str(<<"hi">>), Num(5)}

\* The argument lists of an insertion method that hand it the primitive v
WrapArgs(name, v) ==
    IF name = "insertChild"
    THEN {<<Num(i), v>> \o flag : i \in 0..1, flag \in InsertFlags}
    ELSE {<<v>>}

WrapAny ==
    \E h \in 1..Len(handles), name \in CreatingNames, v \in Primitives :
        \E args \in WrapArgs(name, v) : Method(name, h, args)

NextWrap == EnterNode \/ WrapAny

SpecWrap == Init /\ [][NextWrap]_vars

\* The node argument of the insertion recorded in ret'
Given == IF ret'.op = "insertChild" THEN ret'.args[2] ELSE ret'.args[1]

\* C19: an insertion method given a string or a number creates one element
\* holding that content, puts it into the tree, and returns a Query object of
\* length 1 whose one item is that element.
C19_PrimitiveIsWrapped ==
    [][(/\ ret'.op \in CreatingNames /\ OnElement
        /\ IsPrimitive(Given) /\ ret'.r.k # "throw")
         => /\ doc'.alloc = doc.alloc + 1
            /\ doc'.content[doc'.alloc] = ToWords(Given)
            /\ ParentOf(doc', doc'.alloc) # NoNode
            /\ ret'.r.k = "new"
            /\ ret'.r.q.items = <<NodeV(doc'.alloc)>>
            /\ ret'.r.q.length = Num(1)]_vars

\* The same statement without the after branch of insertChild
C19_PrimitiveIsWrappedElsewhere ==
    [][(/\ ret'.op \in CreatingNames /\ OnElement
        /\ IsPrimitive(Given) /\ ret'.r.k # "throw"
        /\ ~(/\ ret'.op = "insertChild" /\ ret'.args[3] = Bool(FALSE)
              /\ ret'.args[1].n < Len(doc.kids[Target])))
         => /\ doc'.alloc = doc.alloc + 1
            /\ doc'.content[doc'.alloc] = ToWords(Given)
            /\ ParentOf(doc', doc'.alloc) # NoNode
            /\ ret'.r.k = "new"
            /\ ret'.r.q.items = <<NodeV(doc'.alloc)>>
            /\ ret'.r.q.length = Num(1)]_vars

=============================================================================
